---- MODULE Spec2Model ----
(***************************************************************************)
(* A model of the python_utils toolbox: the database helper (db.py), the  *)
(* memoizing decorator (decorators.py), the path and size helpers          *)
(* (files.py), the sorting helpers (sorting.py) and the SentiWordNet       *)
(* index (swn.py).                                                         *)
(*                                                                         *)
(* Python strings are sequences of one-character strings, so that split,  *)
(* join, int() and float() are computed as the code computes them.        *)
(***************************************************************************)
EXTENDS Integers, Sequences, FiniteSets, TLC

VARIABLES
    tables,      \* db: the tables on the connection, by name: their column names
    dblog,       \* db: messages handed to logging.error, oldest first
    dbcall,      \* db: the last helper call and how it ended
    bfd,         \* db: the last build_field_descriptor call and its result
    cache,       \* memoized: self.cache, a map from argument tuples to values
    invoked,     \* memoized: how often self.func ran, per argument tuple
    memocall,    \* memoized: the last call of the wrapper and how it ended
    fs,          \* files: the filesystem, a map from paths to nodes
    sizecall,    \* files: the last getsize call and how it ended
    namecall,    \* files: the last make_new_name call and its result
    sortcall,    \* sorting: the last dict_by_value call and its result
    swn_pc,      \* swn: "uninitialized", "loading", "ready" or "failed"
    swn_file,    \* swn: the lines of the file being read
    swn_index,   \* swn: enumerate's index of the next line to read
    synset_dict, \* swn: self._synset_dict
    swn_stdout,  \* swn: what __init__ printed
    swn_query    \* swn: the last lookup on the finished index

vars == <<tables, dblog, dbcall, bfd, cache, invoked, memocall, fs, sizecall, namecall,
          sortcall, swn_pc, swn_file, swn_index, synset_dict, swn_stdout, swn_query>>

dbvars == <<tables, dblog, dbcall>>

memovars == <<cache, invoked, memocall>>

filevars == <<fs, sizecall, namecall>>

swnvars == <<swn_pc, swn_file, swn_index, synset_dict, swn_stdout, swn_query>>

(***************************************************************************)
(* Bounds of the model.                                                    *)
(***************************************************************************)
MaxLog == 2

MaxFields == 3

\* All sequences over S of length at most n.
SeqsUpTo(S, n) == UNION {[1..k -> S] : k \in 0..n}

(***************************************************************************)
(* Strings.                                                                *)
(***************************************************************************)
SP == " "

TAB == "\t"

NL == "\n"

\* c.isspace(): the blank, and the characters from \t to \r.
IsSpace(c) == c \in {SP, TAB, NL, "", "\f", "\r"}

RECURSIVE Join(_, _)
\* sep.join(strs)
Join(sep, strs) ==
    IF Len(strs) = 0 THEN <<>>
    ELSE IF Len(strs) = 1 THEN strs[1]
    ELSE strs[1] \o sep \o Join(sep, Tail(strs))

RECURSIVE SplitWs(_, _, _)
\* s.split(): the maximal runs of non-whitespace characters of s, in order.
\* cur is the run being read, acc the runs already finished.
SplitWs(s, cur, acc) ==
    IF Len(s) = 0 THEN (IF Len(cur) = 0 THEN acc ELSE Append(acc, cur))
    ELSE IF IsSpace(Head(s))
         THEN SplitWs(Tail(s), <<>>, IF Len(cur) = 0 THEN acc ELSE Append(acc, cur))
         ELSE SplitWs(Tail(s), Append(cur, Head(s)), acc)

split(s) == SplitWs(s, <<>>, <<>>)

\* s.split(sep) for a one-character sep: the pieces between the separators,
\* empty ones included.
SplitOn(s, sep) ==
    LET cuts == <<0>> \o SelectSeq([i \in 1..Len(s) |-> i], LAMBDA i : s[i] = sep)
                     \o <<Len(s) + 1>>
    IN  [n \in 1..(Len(cuts) - 1) |-> SubSeq(s, cuts[n] + 1, cuts[n + 1] - 1)]

Reverse(s) == [i \in 1..Len(s) |-> s[Len(s) + 1 - i]]

(***************************************************************************)
(* db.py: the field descriptor of a CREATE TABLE statement.                *)
(***************************************************************************)
PRIMARY_KEY == <<" ", "P", "R", "I", "M", "A", "R", "Y", " ", "K", "E", "Y">>

AUTO_INCREMENT ==
    <<" ", "A", "U", "T", "O", "_", "I", "N", "C", "R", "E", "M", "E", "N", "T">>

\* None, as the default of auto_inc: no string equals it.
None == <<"None">>

\* encode_field_pair comparing the type, not the name, with the primary key.
encode_field_pair_type(field_pair, primary_key, auto_inc) ==
    LET field_name == field_pair[1]
        type_desc  == field_pair[2]
        ret0 == field_name \o <<SP>> \o type_desc
        ret1 == IF type_desc = primary_key THEN ret0 \o PRIMARY_KEY ELSE ret0
    IN  IF field_name = auto_inc THEN ret1 \o AUTO_INCREMENT ELSE ret1

\* encode_field_pair testing "if auto_inc:", with no comparison of names.
encode_field_pair_any(field_pair, primary_key, auto_inc) ==
    LET field_name == field_pair[1]
        type_desc  == field_pair[2]
        ret0 == field_name \o <<SP>> \o type_desc
        ret1 == IF field_name = primary_key THEN ret0 \o PRIMARY_KEY ELSE ret0
    IN  IF auto_inc # None THEN ret1 \o AUTO_INCREMENT ELSE ret1

encode_field_pair(field_pair, primary_key, auto_inc) ==
    LET field_name == field_pair[1]
        type_desc  == field_pair[2]
        ret0 == field_name \o <<SP>> \o type_desc
        ret1 == IF field_name = primary_key THEN ret0 \o PRIMARY_KEY ELSE ret0
    IN  IF field_name = auto_inc THEN ret1 \o AUTO_INCREMENT ELSE ret1

\* The result is [exc |-> "none", value |-> the clause], or the ValueError of
\* unpacking a field that does not split into exactly two words.
build_field_descriptor(fields, primary_key, auto_inc) ==
    LET field_pairs == [i \in 1..Len(fields) |-> split(fields[i])]
    IN  IF \E i \in 1..Len(fields) : Len(field_pairs[i]) # 2
        THEN [exc |-> "ValueError", value |-> <<>>]
        ELSE [exc |-> "none",
              value |-> <<"(">> \o
                        Join(<<",", SP>>,
                             [i \in 1..Len(fields) |->
                                encode_field_pair(field_pairs[i], primary_key, auto_inc)])
                        \o <<")">>]

\* The inputs of build_field_descriptor: 'name type' strings, one of them with
\* two blanks, two of them naming the same field, and one of a single word.
F_id_INT == <<"i", "d", " ", "I", "N", "T">>

F_nm_TXT == <<"n", "m", " ", " ", "T", "X", "T">>

F_id_TXT == <<"i", "d", " ", "T", "X", "T">>

F_fq == <<"f", "q">>

FieldPool == {F_id_INT, F_nm_TXT, F_id_TXT, F_fq}

N_id == <<"i", "d">>

N_nm == <<"n", "m">>

N_zz == <<"z", "z">>

NoBfd ==
    [called |-> FALSE, fields |-> <<>>, primary_key |-> <<>>, auto_inc |-> None,
     exc |-> "none", value |-> <<>>]

\* The calls of build_field_descriptor, before they are made.
BfdInputs ==
    {[NoBfd EXCEPT !.fields = fields, !.primary_key = primary_key, !.auto_inc = auto_inc] :
        fields \in SeqsUpTo(FieldPool, MaxFields),
        primary_key \in {N_id, N_nm, N_zz},
        auto_inc \in {None, N_id, N_nm, N_zz}}

\* The call is made, and bfd holds what it returned or raised.
BuildFieldDescriptor ==
    /\ ~bfd.called
    /\ LET r == build_field_descriptor(bfd.fields, bfd.primary_key, bfd.auto_inc)
       IN  bfd' = [bfd EXCEPT !.called = TRUE, !.exc = r.exc, !.value = r.value]
    /\ UNCHANGED <<dbvars, memovars, filevars, sortcall, swnvars>>

(***************************************************************************)
(* db.py: create_table, drop_table, get_column and DB_ERROR.               *)
(***************************************************************************)
TableNames == {"foobar", "Writers"}

\* SELECT *
STAR == <<"*">>

\* cursor.execute(query) on the connection, whose tables tbls gives by name
\* with the names of their columns: the tables afterwards, and the MySQL error
\* number of the MySQLdb.Error it raises ("none": none). lost: the server is
\* gone.
Execute(tbls, stmt, lost) ==
    IF lost THEN [err |-> "2006", tables |-> tbls]
    ELSE IF stmt.verb = "create"
    THEN IF stmt.table \in DOMAIN tbls
         THEN [err |-> IF stmt.if_not_exists THEN "none" ELSE "1050", tables |-> tbls]
         ELSE IF \E i, j \in 1..Len(stmt.columns) : i # j /\ stmt.columns[i] = stmt.columns[j]
         THEN [err |-> "1060", tables |-> tbls]
         ELSE [err |-> "none",
               tables |-> [t \in DOMAIN tbls \cup {stmt.table} |->
                             IF t = stmt.table
                             THEN {stmt.columns[i] : i \in 1..Len(stmt.columns)}
                             ELSE tbls[t]]]
    ELSE IF stmt.verb = "drop"
    THEN IF stmt.table \in DOMAIN tbls
         THEN [err |-> "none", tables |-> [t \in DOMAIN tbls \ {stmt.table} |-> tbls[t]]]
         ELSE [err |-> "1051", tables |-> tbls]
    ELSE IF stmt.table \notin DOMAIN tbls THEN [err |-> "1146", tables |-> tbls]
    ELSE IF stmt.column # STAR /\ stmt.column \notin tbls[stmt.table]
    THEN [err |-> "1054", tables |-> tbls]
    ELSE [err |-> "none", tables |-> tbls]

\* DB_ERROR(error, msg, die=False), called with the positional arguments argv:
\* a call with fewer than two is a TypeError, raised before the body runs.
DB_ERROR(argv, log) ==
    IF Len(argv) < 2 \/ Len(argv) > 3
    THEN [outcome |-> "TypeError", log |-> log]
    ELSE LET logged == Append(log, [msg |-> argv[2], error |-> argv[1]])
         IN  IF Len(argv) = 3 /\ argv[3]
             THEN [outcome |-> "SystemExit", log |-> logged]
             ELSE [outcome |-> "returned", log |-> logged]

NoDbCall == [op |-> "none", table |-> "", dberr |-> "none", outcome |-> "returned"]

create_table(name, fields, primary_key, overwrite, lost) ==
    LET field_desc == build_field_descriptor(fields, primary_key, None)
        r == Execute(tables, [verb |-> "create", table |-> name,
                              if_not_exists |-> overwrite,
                              columns |-> [i \in 1..Len(fields) |-> split(fields[i])[1]]],
                     lost)
        h == DB_ERROR(<<"Table creation failed!">>, dblog)
    IN  IF field_desc.exc # "none"
        THEN /\ dbcall' = [op |-> "create_table", table |-> name, dberr |-> "none",
                           outcome |-> field_desc.exc]
             /\ UNCHANGED <<tables, dblog>>
        ELSE IF r.err = "none"
        THEN /\ tables' = r.tables
             /\ dbcall' = [op |-> "create_table", table |-> name, dberr |-> "none",
                           outcome |-> "returned"]
             /\ UNCHANGED dblog
        ELSE /\ dblog' = h.log
             /\ dbcall' = [op |-> "create_table", table |-> name, dberr |-> r.err,
                           outcome |-> h.outcome]
             /\ UNCHANGED tables

drop_table(name, lost) ==
    LET r == Execute(tables, [verb |-> "drop", table |-> name], lost)
        h == DB_ERROR(<<"Table drop failed!">>, dblog)
    IN  IF r.err = "none"
        THEN /\ tables' = r.tables
             /\ dbcall' = [op |-> "drop_table", table |-> name, dberr |-> "none",
                           outcome |-> "returned"]
             /\ UNCHANGED dblog
        ELSE /\ dblog' = h.log
             /\ dbcall' = [op |-> "drop_table", table |-> name, dberr |-> r.err,
                           outcome |-> h.outcome]
             /\ UNCHANGED tables

\* limit: None, a number, or a string; text is what it writes.
NoLimit == [kind |-> "None", text |-> <<>>]

Limits == {NoLimit, [kind |-> "int", text |-> <<"2">>], [kind |-> "str", text |-> <<"2">>]}

\* get_column(conn, table_name, column_name, limit=None): " LIMIT %d" % limit
\* raises TypeError for a limit that is no number, before the query is run.
get_column(table_name, column_name, limit, lost) ==
    LET r == Execute(tables, [verb |-> "select", table |-> table_name,
                              column |-> column_name, limit |-> limit], lost)
        h == DB_ERROR(<<r.err, "DATABASE READ FAILED">>, dblog)
    IN  IF limit.kind \notin {"None", "int"}
        THEN /\ dbcall' = [op |-> "get_column", table |-> table_name, dberr |-> "none",
                           outcome |-> "TypeError"]
             /\ UNCHANGED <<tables, dblog>>
        ELSE IF r.err = "none"
        THEN /\ dbcall' = [op |-> "get_column", table |-> table_name, dberr |-> "none",
                           outcome |-> "returned"]
             /\ UNCHANGED <<tables, dblog>>
        ELSE /\ dblog' = h.log
             /\ dbcall' = [op |-> "get_column", table |-> table_name, dberr |-> r.err,
                           outcome |-> h.outcome]
             /\ UNCHANGED tables

\* run_query(conn, query, commit=False), called by the client: the cursor is
\* returned, or the MySQLdb.Error of cursor.execute reaches the caller, and
\* conn.commit() is not reached.
run_query(query, commit, lost) ==
    LET r == Execute(tables, query, lost)
    IN  /\ tables' = r.tables
        /\ dbcall' = [op |-> "run_query", table |-> query.table, dberr |-> r.err,
                      outcome |-> IF r.err = "none" THEN "returned" ELSE "MySQLdb.Error"]
        /\ UNCHANGED dblog

\* The statements of the client: on a table, one of each verb.
Queries ==
    {[verb |-> "create", table |-> t, if_not_exists |-> b, columns |-> <<N_id>>] :
        t \in TableNames, b \in BOOLEAN}
    \cup {[verb |-> "drop", table |-> t] : t \in TableNames}
    \cup {[verb |-> "select", table |-> t, column |-> c, limit |-> NoLimit] :
             t \in TableNames, c \in {STAR, N_zz}}

RunQuery ==
    /\ \E query \in Queries, commit \in BOOLEAN, lost \in BOOLEAN :
          run_query(query, commit, lost)
    /\ UNCHANGED <<bfd, memovars, filevars, sortcall, swnvars>>

\* DB_ERROR(error, msg) and DB_ERROR(error, msg, die), called by the client,
\* with the error and message of test_error, or a database error.
DbError ==
    /\ Len(dblog) < MaxLog
    /\ \E error \in {"Too many arguments", "2006"}, msg \in {"Unpacking failed!"},
          argv \in {<<>>, <<FALSE>>, <<TRUE>>} :
          LET h == DB_ERROR(<<error, msg>> \o argv, dblog)
          IN  /\ dblog' = h.log
              /\ dbcall' = [op |-> "DB_ERROR", table |-> "", dberr |-> "none",
                            outcome |-> h.outcome]
    /\ UNCHANGED tables
    /\ UNCHANGED <<bfd, memovars, filevars, sortcall, swnvars>>

CreateTable ==
    /\ \E name \in TableNames,
          fields \in {<<F_id_INT, F_nm_TXT>>, <<F_fq>>, <<F_id_INT, F_id_TXT>>},
          overwrite \in BOOLEAN, lost \in BOOLEAN :
          create_table(name, fields, N_id, overwrite, lost)
    /\ UNCHANGED <<bfd, memovars, filevars, sortcall, swnvars>>

DropTable ==
    /\ \E name \in TableNames, lost \in BOOLEAN : drop_table(name, lost)
    /\ UNCHANGED <<bfd, memovars, filevars, sortcall, swnvars>>

GetColumn ==
    /\ Len(dblog) < MaxLog
    /\ \E table_name \in TableNames, column_name \in {N_id, N_zz}, limit \in Limits,
          lost \in BOOLEAN :
          get_column(table_name, column_name, limit, lost)
    /\ UNCHANGED <<bfd, memovars, filevars, sortcall, swnvars>>

(***************************************************************************)
(* decorators.py: memoized, wrapped around extraction.get_from_nltk.       *)
(***************************************************************************)
MaxInvocations == 3

\* Python values: a str, or a list of strs (which cannot be hashed).
Str(x) == [kind |-> "str", items |-> <<x>>]

List(xs) == [kind |-> "list", items |-> xs]

\* The positional-argument tuples of the calls.
ArgTuples ==
    {<<Str("TOKENIZER")>>, <<Str("SENTENCE_TOKENIZER")>>, <<Str("TAGGER")>>,
     <<Str("PARSER")>>, <<List(<<"TAGGER">>)>>}

\* hash(args) succeeds: no element of the tuple is a list.
Hashable(args) == \A i \in 1..Len(args) : args[i].kind # "list"

get_from_nltk(obj_name) ==
    IF obj_name = Str("TOKENIZER") THEN "WordPunctTokenizer"
    ELSE IF obj_name = Str("SENTENCE_TOKENIZER") THEN "tokenizers/punkt/english.pickle"
    ELSE IF obj_name = Str("TAGGER")
         THEN "taggers/maxent_treebank_pos_tagger/english.pickle"
    ELSE "None"

\* self.func(*args)
func(args) == get_from_nltk(args[1])

\* memoized.__call__ that forgets to store what it computed.
memoized_call_nostore(c, args) ==
    IF ~Hashable(args)
    THEN [outcome |-> "returned", value |-> func(args), ran |-> 1, cache |-> c]
    ELSE IF args \in DOMAIN c
    THEN [outcome |-> "returned", value |-> c[args], ran |-> 0, cache |-> c]
    ELSE [outcome |-> "returned", value |-> func(args), ran |-> 1, cache |-> c]

\* memoized.__call__ without the handler of TypeError.
memoized_call_nohandler(c, args) ==
    IF ~Hashable(args)
    THEN [outcome |-> "TypeError", value |-> "None", ran |-> 0, cache |-> c]
    ELSE IF args \in DOMAIN c
    THEN [outcome |-> "returned", value |-> c[args], ran |-> 0, cache |-> c]
    ELSE [outcome |-> "returned", value |-> func(args), ran |-> 1,
          cache |-> [a \in DOMAIN c \cup {args} |-> IF a = args THEN func(args) ELSE c[a]]]

\* memoized.__call__(*args) on the cache c: how the call ends, what it returns,
\* how often it ran self.func, and the cache afterwards.
memoized_call(c, args) ==
    IF ~Hashable(args)
    THEN \* self.cache[args] raises TypeError: the last handler.
         [outcome |-> "returned", value |-> func(args), ran |-> 1, cache |-> c]
    ELSE IF args \in DOMAIN c
    THEN [outcome |-> "returned", value |-> c[args], ran |-> 0, cache |-> c]
    ELSE \* KeyError
         [outcome |-> "returned", value |-> func(args), ran |-> 1,
          cache |-> [a \in DOMAIN c \cup {args} |-> IF a = args THEN func(args) ELSE c[a]]]

NoMemoCall ==
    [called |-> FALSE, args |-> <<>>, outcome |-> "returned", value |-> "None",
     ran |-> 0, cache_before |-> <<>>]

MemoCall ==
    /\ \E args \in ArgTuples :
          LET r == memoized_call(cache, args)
          IN  /\ invoked[args] + r.ran <= MaxInvocations
              /\ cache' = r.cache
              /\ invoked' = [invoked EXCEPT ![args] = @ + r.ran]
              /\ memocall' = [called |-> TRUE, args |-> args, outcome |-> r.outcome,
                              value |-> r.value, ran |-> r.ran, cache_before |-> cache]
    /\ UNCHANGED <<dbvars, bfd, filevars, sortcall, swnvars>>

(***************************************************************************)
(* files.py: getsize, over a filesystem of directories and regular files.  *)
(***************************************************************************)
MaxSize == 2

\* Paths are sequences of names; os.path.join(dirpath, name) appends a name.
join(dirpath, name) == Append(dirpath, name)

Paths == {<<"d">>, <<"d", "a">>, <<"d", "b">>, <<"d", "s">>, <<"d", "s", "a">>}

Absent == [kind |-> "absent", size |-> 0]

\* st_size of a directory: the size of its entry, whatever it holds.
DirEntrySize == 4096

Dir == [kind |-> "dir", size |-> DirEntrySize]

Nodes == {Absent, Dir} \cup {[kind |-> "file", size |-> n] : n \in 1..MaxSize}

\* What is at each path: what exists lies in a directory that exists.
NodeMaps ==
    {m \in [Paths -> Nodes] :
        \A p \in Paths : (Len(p) > 1 /\ m[p] # Absent)
                            => m[SubSeq(p, 1, Len(p) - 1)].kind = "dir"}

\* The names of the entries of the directories.
Names == {p[Len(p)] : p \in {q \in Paths : Len(q) > 1}}

\* The orders in which os.listdir may give the names: any order.
Listings ==
    {o \in [1..Cardinality(Names) -> Names] :
        \A i, j \in 1..Cardinality(Names) : o[i] = o[j] => i = j}

\* The filesystems: what is at each path, and the order of the listings.
FileSystems == {[nodes |-> m, order |-> o] : m \in NodeMaps, o \in Listings}

NodeAt(f, p) == IF p \in DOMAIN f.nodes THEN f.nodes[p] ELSE Absent

isfile(f, p) == NodeAt(f, p).kind = "file"

isdir(f, p) == NodeAt(f, p).kind = "dir"

\* os.path.getsize(p): the size of what is there, OSError when nothing is.
os_path_getsize(f, p) ==
    IF NodeAt(f, p).kind = "absent" THEN [exc |-> "OSError", value |-> 0]
    ELSE [exc |-> "none", value |-> NodeAt(f, p).size]

\* os.listdir(top): the names of the entries of directory top, in the order
\* of the filesystem.
listdir(f, top) ==
    LET present == {q[Len(q)] : q \in {q \in DOMAIN f.nodes :
                                          /\ Len(q) = Len(top) + 1
                                          /\ SubSeq(q, 1, Len(top)) = top
                                          /\ f.nodes[q].kind # "absent"}}
        Present(n) == n \in present
    IN  SelectSeq(f.order, Present)

RECURSIVE walk(_, _)
RECURSIVE WalkAll(_, _, _)
\* os.walk(top), top down: the (dirpath, dirnames, filenames) triples. What is
\* no directory cannot be listed, and yields nothing.
walk(f, top) ==
    IF ~isdir(f, top) THEN <<>>
    ELSE LET names == listdir(f, top)
             IsDirName(n) == isdir(f, join(top, n))
             NoDirName(n) == ~isdir(f, join(top, n))
             dirs == SelectSeq(names, IsDirName)
             nondirs == SelectSeq(names, NoDirName)
         IN  <<[dirpath |-> top, dirnames |-> dirs, filenames |-> nondirs]>>
             \o WalkAll(f, top, dirs)

WalkAll(f, top, dirs) ==
    IF Len(dirs) = 0 THEN <<>>
    ELSE walk(f, join(top, Head(dirs))) \o WalkAll(f, top, Tail(dirs))

\* An ignorefunc: None, or the predicate true of the paths in rejects.
NoIgnore == [none |-> TRUE, rejects |-> {}]

Ignore(S) == [none |-> FALSE, rejects |-> S]

IgnoreFuncs ==
    {NoIgnore, Ignore({}), Ignore({<<"d", "a">>}), Ignore({<<"d", "s", "a">>}),
     Ignore({<<"d", "a">>, <<"d", "s", "a">>}), Ignore(Paths)}

RECURSIVE SumFiles(_, _, _, _)
\* The inner loop of getsize over the filenames of one directory.
SumFiles(f, dirpath, filenames, ignorefunc) ==
    IF Len(filenames) = 0 THEN [exc |-> "none", value |-> 0]
    ELSE LET fpath == join(dirpath, Head(filenames))
             rest == SumFiles(f, dirpath, Tail(filenames), ignorefunc)
             size == os_path_getsize(f, fpath)
         IN  IF ~ignorefunc.none /\ fpath \in ignorefunc.rejects THEN rest
             ELSE IF size.exc # "none" THEN size
             ELSE IF rest.exc # "none" THEN rest
             ELSE [exc |-> "none", value |-> size.value + rest.value]

RECURSIVE SumWalk(_, _, _)
\* The outer loop of getsize over the triples of os.walk.
SumWalk(f, triples, ignorefunc) ==
    IF Len(triples) = 0 THEN [exc |-> "none", value |-> 0]
    ELSE LET here == SumFiles(f, Head(triples).dirpath, Head(triples).filenames, ignorefunc)
             rest == SumWalk(f, Tail(triples), ignorefunc)
         IN  IF here.exc # "none" THEN here
             ELSE IF rest.exc # "none" THEN rest
             ELSE [exc |-> "none", value |-> here.value + rest.value]

\* getsize asking os.path.getsize for whatever is no directory.
getsize_notdir(f, path, ignorefunc) ==
    IF ~isdir(f, path) THEN os_path_getsize(f, path)
    ELSE SumWalk(f, walk(f, path), ignorefunc)

\* getsize that never consults ignorefunc.
getsize_noignore(f, path, ignorefunc) ==
    IF isfile(f, path) THEN os_path_getsize(f, path)
    ELSE SumWalk(f, walk(f, path), NoIgnore)

getsize(f, path, ignorefunc) ==
    IF isfile(f, path) THEN os_path_getsize(f, path)
    ELSE SumWalk(f, walk(f, path), ignorefunc)

NoSizeCall ==
    [called |-> FALSE, path |-> <<>>, ignorefunc |-> NoIgnore, exc |-> "none", value |-> 0]

\* The calls of getsize, before they are made.
SizeInputs ==
    {[NoSizeCall EXCEPT !.path = path, !.ignorefunc = ignorefunc] :
        path \in Paths, ignorefunc \in IgnoreFuncs}

\* The call is made, and sizecall holds what it returned or raised.
GetSize ==
    /\ ~sizecall.called
    /\ LET r == getsize(fs, sizecall.path, sizecall.ignorefunc)
       IN  sizecall' = [sizecall EXCEPT !.called = TRUE, !.exc = r.exc, !.value = r.value]
    /\ UNCHANGED <<dbvars, bfd, memovars, fs, namecall, sortcall, swnvars>>

(***************************************************************************)
(* files.py: make_new_name, over path strings as posixpath reads them.     *)
(***************************************************************************)
SEP == "/"

DOT == "."

\* s.rfind(c), counting from 1: the last place of c in s, 0 when it has none.
rfind(s, c) ==
    IF \E i \in 1..Len(s) : s[i] = c
    THEN CHOOSE i \in 1..Len(s) : s[i] = c /\ \A j \in (i + 1)..Len(s) : s[j] # c
    ELSE 0

\* s.rstrip('/')
rstrip_sep(s) ==
    IF \A i \in 1..Len(s) : s[i] = SEP THEN <<>>
    ELSE SubSeq(s, 1, CHOOSE i \in 1..Len(s) :
                         s[i] # SEP /\ \A j \in (i + 1)..Len(s) : s[j] = SEP)

\* os.path.splitext(p): <<root, ext>>. The extension begins at the last dot
\* of the last component, unless only dots come before it there.
os_path_splitext(p) ==
    LET sepIndex == rfind(p, SEP)
        dotIndex == rfind(p, DOT)
    IN  IF /\ dotIndex > sepIndex
           /\ \E k \in (sepIndex + 1)..(dotIndex - 1) : p[k] # DOT
        THEN <<SubSeq(p, 1, dotIndex - 1), SubSeq(p, dotIndex, Len(p))>>
        ELSE <<p, <<>>>>

\* os.path.split(p): <<head, tail>>. The tail is what follows the last slash;
\* the head loses its trailing slashes, unless it is made of slashes only.
os_path_split(p) ==
    LET i == rfind(p, SEP)
        head == SubSeq(p, 1, i)
        tail == SubSeq(p, i + 1, Len(p))
    IN  IF Len(head) > 0 /\ \E k \in 1..Len(head) : head[k] # SEP
        THEN <<rstrip_sep(head), tail>>
        ELSE <<head, tail>>

\* os.path.join(a, b)
os_path_join(a, b) ==
    IF Len(b) > 0 /\ b[1] = SEP THEN b
    ELSE IF Len(a) = 0 \/ a[Len(a)] = SEP THEN a \o b
    ELSE a \o <<SEP>> \o b

\* "if x:" for x a string or None
Truthy(x) == x # None /\ Len(x) > 0

make_new_name(path, new_dir, new_ext) ==
    LET fpath == os_path_splitext(path)[1]
        fext0 == os_path_splitext(path)[2]
        fdir0 == os_path_split(fpath)[1]
        fname == os_path_split(fpath)[2]
        fdir == IF Truthy(new_dir) THEN new_dir ELSE fdir0
        fext == IF Truthy(new_ext) THEN new_ext ELSE fext0
    IN  os_path_join(fdir, fname \o fext)

\* The paths of the calls: '/a/b/c.txt', 'c.txt', '/c.txt', 'a//c.txt', 'a/b/',
\* '/a/.rc', 'a.b/c' and 'c.tar.gz'.
P_abc_txt == <<"/", "a", "/", "b", "/", "c", ".", "t", "x", "t">>

PathPool ==
    {P_abc_txt,
     <<"c", ".", "t", "x", "t">>,
     <<"/", "c", ".", "t", "x", "t">>,
     <<"a", "/", "/", "c", ".", "t", "x", "t">>,
     <<"a", "/", "b", "/">>,
     <<"/", "a", "/", ".", "r", "c">>,
     <<"a", ".", "b", "/", "c">>,
     <<"c", ".", "t", "a", "r", ".", "g", "z">>}

\* new_dir: left out, '', '/x' or 'x/'.
DirPool == {None, <<>>, <<"/", "x">>, <<"x", "/">>}

\* new_ext: left out, '', '.md' or 'md'.
ExtPool == {None, <<>>, <<".", "m", "d">>, <<"m", "d">>}

NoNameCall ==
    [called |-> FALSE, path |-> <<>>, new_dir |-> None, new_ext |-> None, result |-> <<>>]

\* The calls of make_new_name, before they are made.
NameInputs ==
    {[NoNameCall EXCEPT !.path = path, !.new_dir = new_dir, !.new_ext = new_ext] :
        path \in PathPool, new_dir \in DirPool, new_ext \in ExtPool}

\* The call is made, and namecall holds what it returned.
MakeNewName ==
    /\ ~namecall.called
    /\ namecall' = [namecall EXCEPT
                       !.called = TRUE,
                       !.result = make_new_name(namecall.path, namecall.new_dir,
                                                namecall.new_ext)]
    /\ UNCHANGED <<dbvars, bfd, memovars, fs, sizecall, sortcall, swnvars>>

(***************************************************************************)
(* sorting.py: dict_by_value.                                              *)
(***************************************************************************)
MaxVal == 3

\* The keys of the dictionaries, in the order Python compares them.
KeyOrder == <<"a", "b", "c">>

Keys == {KeyOrder[i] : i \in 1..Len(KeyOrder)}

KeyRank(k) == CHOOSE i \in 1..Len(KeyOrder) : KeyOrder[i] = k

\* Python's comparison of two tuples of the same length, element by element.
TupleLess(x, y) ==
    \E i \in 1..Len(x) : x[i] < y[i] /\ \A j \in 1..(i - 1) : x[j] = y[j]

RECURSIVE InsertByKey(_, _)
\* x put into the sorted s behind every element whose key is not greater.
InsertByKey(x, s) ==
    IF Len(s) = 0 THEN <<x>>
    ELSE IF TupleLess(x.key, Head(s).key) THEN <<x>> \o s
    ELSE <<Head(s)>> \o InsertByKey(x, Tail(s))

RECURSIVE StableSort(_, _)
\* The elements of s put one by one, from the left, into acc.
StableSort(s, acc) ==
    IF Len(s) = 0 THEN acc ELSE StableSort(Tail(s), InsertByKey(Head(s), acc))

\* sorted(keyed, reverse=reverse) of elements that carry their key: a stable
\* sort, which for reverse is done on the reversed list and reversed again.
sorted(keyed, reverse) ==
    IF reverse THEN Reverse(StableSort(Reverse(keyed), <<>>))
    ELSE StableSort(keyed, <<>>)

\* dict_by_value with the value alone as the key of the sort.
dict_by_value_nokey(items, reverse) ==
    LET keyed == [i \in 1..Len(items) |-> [key |-> <<items[i].v>>, item |-> items[i]]]
        s == sorted(keyed, reverse)
    IN  [i \in 1..Len(s) |-> s[i].item]

\* items: adict.iteritems(), the entries in the order the dictionary yields them.
dict_by_value(items, reverse) ==
    LET keyed == [i \in 1..Len(items) |->
                    [key |-> <<items[i].v, KeyRank(items[i].k)>>, item |-> items[i]]]
        s == sorted(keyed, reverse)
    IN  [i \in 1..Len(s) |-> s[i].item]

\* The dictionaries over Keys, each in every order of iteration.
ItemSeqs ==
    {s \in SeqsUpTo([k : Keys, v : 1..MaxVal], Len(KeyOrder)) :
        \A i, j \in 1..Len(s) : i # j => s[i].k # s[j].k}

NoSortCall == [called |-> FALSE, items |-> <<>>, reverse |-> FALSE, result |-> <<>>]

\* The calls of dict_by_value, before they are made.
SortInputs ==
    {[NoSortCall EXCEPT !.items = items, !.reverse = reverse] :
        items \in ItemSeqs, reverse \in BOOLEAN}

\* The call is made, and sortcall holds what it returned.
DictByValue ==
    /\ ~sortcall.called
    /\ sortcall' = [sortcall EXCEPT !.called = TRUE,
                                    !.result = dict_by_value(sortcall.items, sortcall.reverse)]
    /\ UNCHANGED <<dbvars, bfd, memovars, filevars, swnvars>>

(***************************************************************************)
(* swn.py: parsing the lines of the SentiWordNet file.                     *)
(***************************************************************************)
MaxLines == 3

DigitChars == <<"0", "1", "2", "3", "4", "5", "6", "7", "8", "9">>

IsDigit(c) == \E i \in 1..Len(DigitChars) : DigitChars[i] = c

DigitVal(c) == (CHOOSE i \in 1..Len(DigitChars) : DigitChars[i] = c) - 1

\* s.lstrip()
LStrip(s) ==
    IF \A i \in 1..Len(s) : IsSpace(s[i]) THEN <<>>
    ELSE SubSeq(s, CHOOSE i \in 1..Len(s) :
                       ~IsSpace(s[i]) /\ \A j \in 1..(i - 1) : IsSpace(s[j]), Len(s))

\* s.strip()
Strip(s) == Reverse(LStrip(Reverse(LStrip(s))))

RECURSIVE DigitsVal(_, _)
\* The number the digits of s write, continuing from acc.
DigitsVal(s, acc) ==
    IF Len(s) = 0 THEN acc ELSE DigitsVal(Tail(s), 10 * acc + DigitVal(Head(s)))

AllDigits(s) == \A i \in 1..Len(s) : IsDigit(s[i])

\* The digits of ds after its leading zeros.
Significant(ds) ==
    IF \A i \in 1..Len(ds) : ds[i] = "0" THEN <<>>
    ELSE SubSeq(ds, CHOOSE i \in 1..Len(ds) :
                        ds[i] # "0" /\ \A j \in 1..(i - 1) : ds[j] = "0", Len(ds))

\* The sign and the rest of a stripped numeral.
Signed(t) ==
    IF Len(t) > 0 /\ Head(t) \in {"+", "-"}
    THEN [neg |-> Head(t) = "-", body |-> Tail(t)]
    ELSE [neg |-> FALSE, body |-> t]

\* int(s): blanks around an optional sign, blanks after the sign, and at
\* least one digit.
int(s) ==
    LET n == Signed(Strip(s))
        Of(neg, body) ==
            IF Len(body) = 0 \/ ~AllDigits(body) THEN [exc |-> "ValueError", value |-> 0]
            ELSE [exc |-> "none",
                  value |-> IF neg THEN 0 - DigitsVal(Significant(body), 0)
                            ELSE DigitsVal(Significant(body), 0)]
    IN  Of(n.neg, LStrip(n.body))

(***************************************************************************)
(* Floats are IEEE doubles: a sign, and mant * 2^exp with mant below 2^53,  *)
(* at least 2^52 unless exp is the least exponent. mant is a natural number *)
(* written in limbs of 15 bits, the least significant first, <<>> for 0.    *)
(***************************************************************************)
RECURSIVE Pow2(_)
Pow2(k) == IF k = 0 THEN 1 ELSE 2 * Pow2(k - 1)

RECURSIVE Pow10(_)
Pow10(k) == IF k = 0 THEN 1 ELSE 10 * Pow10(k - 1)

LimbBits == 15

Base == Pow2(LimbBits)

\* The bits of a mantissa, and the exponents of the least and of the greatest
\* double.
MantBits == 53

MinExp == -1074

MaxExp == 971

\* x without its leading zero limbs
Trim(x) ==
    IF \A i \in 1..Len(x) : x[i] = 0 THEN <<>>
    ELSE SubSeq(x, 1, CHOOSE i \in 1..Len(x) : x[i] # 0 /\ \A j \in (i + 1)..Len(x) : x[j] = 0)

RECURSIVE MulRange(_, _, _)
\* The limbs of x * m + carry, and what goes beyond them; the low half first.
MulRange(x, m, carry) ==
    IF Len(x) = 0 THEN [low |-> <<>>, carry |-> carry]
    ELSE IF Len(x) = 1
    THEN [low |-> <<(x[1] * m + carry) % Base>>, carry |-> (x[1] * m + carry) \div Base]
    ELSE LET h == Len(x) \div 2
             lo == MulRange(SubSeq(x, 1, h), m, carry)
             hi == MulRange(SubSeq(x, h + 1, Len(x)), m, lo.carry)
         IN  [low |-> lo.low \o hi.low, carry |-> hi.carry]

\* x * m + carry, for m and carry below Base
MulSmall(x, m, carry) ==
    LET Whole(r) == IF r.carry = 0 THEN r.low ELSE Append(r.low, r.carry)
    IN  Whole(MulRange(x, m, carry))

RECURSIVE DivRange(_, _, _)
\* (rem * Base^Len(x) + x) divided by d, for rem below d; the high half first.
DivRange(x, d, rem) ==
    IF rem >= d \/ Len(x) = 0 THEN [q |-> <<>>, r |-> rem]
    ELSE IF Len(x) = 1
    THEN [q |-> <<(rem * Base + x[1]) \div d>>, r |-> (rem * Base + x[1]) % d]
    ELSE LET h == Len(x) \div 2
             hi == DivRange(SubSeq(x, h + 1, Len(x)), d, rem)
             lo == DivRange(SubSeq(x, 1, h), d, hi.r)
         IN  [q |-> lo.q \o hi.q, r |-> lo.r]

\* x divided by d, for d below Base: the quotient and the remainder
DivSmall(x, d) ==
    LET Trimmed(r) == [q |-> Trim(r.q), r |-> r.r]
    IN  Trimmed(DivRange(x, d, 0))

RECURSIVE BigAdd(_, _, _)
\* x + y + carry
BigAdd(x, y, carry) ==
    IF Len(x) = 0 /\ Len(y) = 0 THEN (IF carry = 0 THEN <<>> ELSE <<carry>>)
    ELSE LET a == IF Len(x) = 0 THEN 0 ELSE Head(x)
             b == IF Len(y) = 0 THEN 0 ELSE Head(y)
             t == a + b + carry
         IN  <<t % Base>> \o BigAdd(IF Len(x) = 0 THEN x ELSE Tail(x),
                                    IF Len(y) = 0 THEN y ELSE Tail(y), t \div Base)

RECURSIVE BigSubRaw(_, _, _)
BigSubRaw(x, y, borrow) ==
    IF Len(x) = 0 THEN <<>>
    ELSE LET b == IF Len(y) = 0 THEN 0 ELSE Head(y)
             t == Head(x) - b - borrow
         IN  <<t % Base>> \o BigSubRaw(Tail(x), IF Len(y) = 0 THEN y ELSE Tail(y),
                                       IF t < 0 THEN 1 ELSE 0)

\* x - y, for y <= x
BigSub(x, y) == Trim(BigSubRaw(x, y, 0))

\* x < y
BigLess(x, y) ==
    \/ Len(x) < Len(y)
    \/ /\ Len(x) = Len(y)
       /\ \E i \in 1..Len(x) : x[i] < y[i] /\ \A j \in (i + 1)..Len(x) : x[j] = y[j]

RECURSIVE SmallBitLen(_)
SmallBitLen(n) == IF n = 0 THEN 0 ELSE 1 + SmallBitLen(n \div 2)

\* The number of bits of x
BitLen(x) == IF Len(x) = 0 THEN 0 ELSE LimbBits * (Len(x) - 1) + SmallBitLen(x[Len(x)])

\* x * 2^n
ShiftLeft(x, n) ==
    IF Len(x) = 0 THEN x
    ELSE [i \in 1..(n \div LimbBits) |-> 0] \o MulSmall(x, Pow2(n % LimbBits), 0)

\* x divided by 2^n: the quotient, and whether anything was left over
ShiftRight(x, n) ==
    LET Below(limbs, d) == [q |-> d.q, sticky |-> d.r # 0 \/ \E i \in 1..limbs : x[i] # 0]
        Drop(limbs) ==
            Below(limbs, DivSmall(SubSeq(x, limbs + 1, Len(x)), Pow2(n % LimbBits)))
    IN  Drop(IF n \div LimbBits > Len(x) THEN Len(x) ELSE n \div LimbBits)

Zero(neg) == [kind |-> "finite", neg |-> neg, mant |-> <<>>, exp |-> 0]

Inf(neg) == [kind |-> "inf", neg |-> neg, mant |-> <<>>, exp |-> 0]

NaN == [kind |-> "nan", neg |-> FALSE, mant |-> <<>>, exp |-> 0]

\* The float of a mantissa of at most MantBits + 1 bits and an exponent: 0, a
\* mantissa of MantBits bits after a carry, out of range, or as it is.
Pack(neg, m, exp) ==
    LET carry == IF BitLen(m) > MantBits THEN 1 ELSE 0
    IN  IF Len(m) = 0 THEN Zero(neg)
        ELSE IF exp + carry > MaxExp THEN Inf(neg)
        ELSE [kind |-> "finite", neg |-> neg,
              mant |-> IF carry = 1 THEN DivSmall(m, 2).q ELSE m, exp |-> exp + carry]

\* The float nearest to (twice.q + f) * 2^(exp - 1), where 0 <= f < 1 and f > 0
\* iff twice.sticky or sticky: half of twice.q, rounded up when the half bit
\* is set and either a bit below it or the bit above it is.
Halved(neg, twice, sticky, exp) ==
    Pack(neg,
         DivSmall(IF sticky \/ twice.sticky \/ (Len(twice.q) > 0 /\ twice.q[1] % 4 >= 2)
                  THEN BigAdd(twice.q, <<1>>, 0) ELSE twice.q, 2).q,
         exp)

\* The double nearest to (Q + f) * 2^e, where 0 <= f < 1 and f > 0 iff sticky:
\* round to nearest, ties to the even mantissa, overflow to infinity.
RoundBig(neg, Q, e, sticky) ==
    LET natural == e + BitLen(Q) - MantBits
        exp == IF natural < MinExp THEN MinExp ELSE natural
    IN  IF Len(Q) = 0 THEN Zero(neg)
        ELSE IF exp <= e THEN Pack(neg, ShiftLeft(Q, e - exp), exp)
        ELSE Halved(neg, ShiftRight(Q, exp - e - 1), sticky, exp)

RECURSIVE TimesPow10(_, _)
\* x * 10^k
TimesPow10(x, k) ==
    IF Len(x) = 0 THEN x
    ELSE IF k <= 4 THEN MulSmall(x, Pow10(k), 0)
    ELSE TimesPow10(TimesPow10(x, k \div 2), k - (k \div 2))

RECURSIVE OverPow10(_, _)
\* x divided by 10^k: the quotient, and whether anything was left over
OverPow10(x, k) ==
    IF Len(x) = 0 THEN [q |-> x, sticky |-> FALSE]
    ELSE LET Left(d) == [q |-> d.q, sticky |-> d.r # 0]
             first == OverPow10(x, k \div 2)
             rest == OverPow10(first.q, k - (k \div 2))
         IN  IF k <= 4 THEN Left(DivSmall(x, Pow10(k)))
             ELSE [q |-> rest.q, sticky |-> first.sticky \/ rest.sticky]

\* The double nearest to (N + f) / 10^k, ties to the even mantissa, for N of
\* digits digits and 0 <= f < 1, where f > 0 iff more. A number that is
\* 10^310 or more is beyond every double, and one below 10^-330 is nearer to
\* 0 than to any other. With more, N has 800 digits: no double and no middle
\* of two doubles has that many, so none lies between N and N + 1, and
\* N + f rounds as any number just above N does.
Nearest(neg, N, k, digits, more) ==
    LET t == IF k <= 0 THEN 0 ELSE 4 * k + MantBits + 3
        q == IF k <= 0 THEN [q |-> TimesPow10(N, 0 - k), sticky |-> FALSE]
             ELSE OverPow10(ShiftLeft(N, t), k)
    IN  IF Len(N) = 0 THEN Zero(neg)
        ELSE IF digits - k >= 311 THEN Inf(neg)
        ELSE IF k - digits >= 330 THEN Zero(neg)
        ELSE RoundBig(neg, q.q, 0 - t, q.sticky \/ more)

FNeg(a) == IF a.kind = "nan" THEN a ELSE [a EXCEPT !.neg = ~a.neg]

\* a + b of two floats. An operand that lies more than 64 binary places below
\* the other changes nothing in the sum.
FAdd(a, b) ==
    IF a.kind = "nan" \/ b.kind = "nan" THEN NaN
    ELSE IF a.kind = "inf" THEN (IF b.kind = "inf" /\ b.neg # a.neg THEN NaN ELSE a)
    ELSE IF b.kind = "inf" THEN b
    ELSE IF Len(a.mant) = 0 /\ Len(b.mant) = 0 THEN Zero(a.neg /\ b.neg)
    ELSE IF Len(b.mant) = 0 \/ (Len(a.mant) > 0 /\ a.exp - b.exp > 64) THEN a
    ELSE IF Len(a.mant) = 0 \/ b.exp - a.exp > 64 THEN b
    ELSE LET e == IF a.exp < b.exp THEN a.exp ELSE b.exp
             A == ShiftLeft(a.mant, a.exp - e)
             B == ShiftLeft(b.mant, b.exp - e)
         IN  IF a.neg # b.neg /\ A = B THEN Zero(FALSE)
             ELSE RoundBig(IF a.neg = b.neg \/ BigLess(B, A) THEN a.neg ELSE b.neg,
                           IF a.neg = b.neg THEN BigAdd(A, B, 0)
                           ELSE IF BigLess(A, B) THEN BigSub(B, A) ELSE BigSub(A, B),
                           e, FALSE)

\* a - b of two floats
FSub(a, b) == FAdd(a, FNeg(b))

RECURSIVE FromDigits(_, _)
\* The number the digits of ds write, continuing from acc.
FromDigits(acc, ds) ==
    IF Len(acc) = 0 /\ Len(ds) = 0 THEN <<>>
    ELSE IF Len(ds) <= 4 THEN MulSmall(acc, Pow10(Len(ds)), DigitsVal(ds, 0))
    ELSE FromDigits(FromDigits(acc, SubSeq(ds, 1, Len(ds) \div 2)),
                    SubSeq(ds, (Len(ds) \div 2) + 1, Len(ds)))

\* The number the digits of an exponent write: exactly, when at most nine
\* digits follow its leading zeros, and 1100000000 when more do.
ExpVal(ds) ==
    IF Len(Significant(ds)) > 9 THEN 1100000000 ELSE DigitsVal(Significant(ds), 0)

\* c.lower(), on the letters of inf, infinity and nan
Lower(s) ==
    [i \in 1..Len(s) |->
        CASE s[i] = "I" -> "i" [] s[i] = "N" -> "n" [] s[i] = "F" -> "f"
          [] s[i] = "T" -> "t" [] s[i] = "Y" -> "y" [] s[i] = "A" -> "a"
          [] OTHER -> s[i]]

\* The place of the first e or E of s, Len(s) + 1 when it has none.
ExpMark(s) ==
    IF \E i \in 1..Len(s) : s[i] \in {"e", "E"}
    THEN CHOOSE i \in 1..Len(s) :
            s[i] \in {"e", "E"} /\ \A j \in 1..(i - 1) : s[j] \notin {"e", "E"}
    ELSE Len(s) + 1

\* The float of a numeral without its sign: digits with at most one point,
\* and after the mark at e, if there is one, a signed exponent.
Numeral(neg, body, e) ==
    LET exponent == Signed(SubSeq(body, e + 1, Len(body)))
        parts == SplitOn(SubSeq(body, 1, e - 1), ".")
        whole == parts[1]
        frac == IF Len(parts) = 2 THEN parts[2] ELSE <<>>
        \* the digits between the leading and the trailing zeros, and the
        \* first 800 of them
        lead == Significant(whole \o frac)
        core == Reverse(Significant(Reverse(lead)))
        kept == SubSeq(core, 1, IF Len(core) > 800 THEN 800 ELSE Len(core))
    IN  IF \/ Len(parts) > 2
           \/ ~AllDigits(whole) \/ ~AllDigits(frac)
           \/ Len(whole) + Len(frac) = 0
           \/ /\ e <= Len(body)
              /\ (Len(exponent.body) = 0 \/ ~AllDigits(exponent.body))
        THEN [exc |-> "ValueError", value |-> Zero(FALSE)]
        ELSE [exc |-> "none",
              value |-> Nearest(neg, FromDigits(<<>>, kept),
                                Len(frac) - (Len(lead) - Len(kept))
                                    - (IF e > Len(body) THEN 0
                                       ELSE IF exponent.neg THEN 0 - ExpVal(exponent.body)
                                       ELSE ExpVal(exponent.body)),
                                Len(kept), Len(core) > 800)]

\* float(s): blanks around an optional sign and inf, infinity or nan in any
\* case, or a decimal numeral (digits, at most one point, a digit on one side
\* of it at least) with an optional exponent: the double nearest to the
\* number the numeral writes.
float(s) ==
    LET n == Signed(Strip(s))
    IN  IF Lower(n.body) \in {<<"i", "n", "f">>, <<"i", "n", "f", "i", "n", "i", "t", "y">>}
        THEN [exc |-> "none", value |-> Inf(n.neg)]
        ELSE IF Lower(n.body) = <<"n", "a", "n">> THEN [exc |-> "none", value |-> NaN]
        ELSE Numeral(n.neg, n.body, ExpMark(n.body))

\* 1.0
One == Nearest(FALSE, <<1>>, 0, 1, FALSE)

RECURSIVE NatToStr(_)
NatToStr(n) ==
    IF n < 10 THEN <<DigitChars[n + 1]>>
    ELSE NatToStr(n \div 10) \o <<DigitChars[(n % 10) + 1]>>

\* str(n) of an integer
str(n) == IF n < 0 THEN <<"-">> \o NatToStr(0 - n) ELSE NatToStr(n)

(***************************************************************************)
(* swn.py: WordNet, as nltk.corpus.wordnet answers.                        *)
(***************************************************************************)
Synset(pos, offset) == [pos |-> pos, offset |-> offset]

\* The synsets of WordNet: adjectives, a satellite adjective and an adverb.
WordNetSynsets ==
    {Synset(<<"a">>, 1), Synset(<<"s">>, 2), Synset(<<"r">>, 3), Synset(<<"a">>, 4)}

\* The data file that holds the synsets of a part of speech: satellite
\* adjectives are in the file of the adjectives.
DataFile(pos) == IF pos = <<"s">> THEN <<"a">> ELSE pos

\* wordnet._synset_from_pos_and_offset(pos, offset)
synset_from_pos_and_offset(pos, offset) ==
    LET found == {x \in WordNetSynsets : DataFile(x.pos) = pos /\ x.offset = offset}
    IN  IF found = {} THEN [exc |-> "WordNetError", synset |-> Synset(<<>>, 0)]
        ELSE [exc |-> "none", synset |-> CHOOSE x \in found : TRUE]

Words == {"able", "well", "easy", "qqq"}

\* wordnet.synsets(word): the senses of the word, the most frequent first.
synsets(word) ==
    IF word = "able" THEN <<Synset(<<"a">>, 1), Synset(<<"s">>, 2)>>
    ELSE IF word = "well" THEN <<Synset(<<"r">>, 3), Synset(<<"a">>, 4)>>
    ELSE IF word = "easy" THEN <<Synset(<<"s">>, 2)>>
    ELSE <<>>

(***************************************************************************)
(* swn.py: SWNEntry and SentiWordNet.                                      *)
(***************************************************************************)
make_unique_key(pos, offset) == pos \o str(offset)

NoEntry ==
    [pos |-> <<>>, offset |-> 0, pos_score |-> Zero(FALSE), neg_score |-> Zero(FALSE),
     obj_score |-> Zero(FALSE),
     unique_key |-> <<>>]

\* SWNEntry(pos, synset_id, pos_score, neg_score)
SWNEntry(pos, synset_id, pos_score, neg_score) ==
    LET r == synset_from_pos_and_offset(pos, synset_id)
    IN  IF r.exc # "none" THEN [exc |-> r.exc, entry |-> NoEntry]
        ELSE [exc |-> "none",
              entry |-> [pos |-> r.synset.pos, offset |-> r.synset.offset,
                         pos_score |-> pos_score, neg_score |-> neg_score,
                         obj_score |-> FSub(FSub(One, pos_score), neg_score),
                         unique_key |-> r.synset.pos \o str(r.synset.offset)]]

\* SWNEntry(synset_pos, int(synset_offset), float(pos_score), float(neg_score)),
\* given what int and float made of the tokens: the first that raised, raises.
tokens(synset_pos, synset_offset, pos_score, neg_score) ==
    IF synset_offset.exc # "none" THEN [exc |-> synset_offset.exc, entry |-> NoEntry]
    ELSE IF pos_score.exc # "none" THEN [exc |-> pos_score.exc, entry |-> NoEntry]
    ELSE IF neg_score.exc # "none" THEN [exc |-> neg_score.exc, entry |-> NoEntry]
    ELSE SWNEntry(synset_pos, synset_offset.value, pos_score.value, neg_score.value)

\* SentiWordNet._parse_line(line)
parse_line(line) ==
    LET parts == SplitOn(line, TAB)
    IN  IF Len(parts) # 6 THEN [exc |-> "ValueError", entry |-> NoEntry]
        ELSE tokens(parts[1], int(parts[2]), float(parts[3]), float(parts[4]))

\* line.startswith('#')
IsComment(line) == Len(line) > 0 /\ Head(line) = "#"

\* A line of the file: six fields between tabs, and the end of the line.
Line(f1, f2, f3, f4, f5, f6) == Join(<<TAB>>, <<f1, f2, f3, f4, f5, f6>>) \o <<NL>>

L_comment == <<"#", " ", "c", NL>>

L_a1 == Line(<<"a">>, <<"1">>, <<"0", ".", "5">>, <<"0">>, <<"x">>, <<"g">>)

\* The synset of L_a1 again, its offset with a leading zero, and other scores.
L_a01 == Line(<<"a">>, <<"0", "1">>, <<"0">>, <<"0", ".", "2", "5">>, <<"x">>, <<"g">>)

\* A satellite adjective, which the file lists as an adjective.
L_a2 == Line(<<"a">>, <<"2">>, <<"0", ".", "1", "2", "5">>, <<"0">>, <<"y">>, <<"g">>)

L_r3 == Line(<<"r">>, <<"3">>, <<"0">>, <<"0">>, <<"z">>, <<"g">>)

\* Malformed: two fields, an offset that is no integer, a score that is no
\* number, and an offset WordNet has no synset at.
L_short == <<"a", TAB, "1", NL>>

L_badoffset == Line(<<"a">>, <<"x">>, <<"0">>, <<"0">>, <<"x">>, <<"g">>)

L_badscore == Line(<<"a">>, <<"1">>, <<"0">>, <<"0", ".", "x">>, <<"x">>, <<"g">>)

L_nosynset == Line(<<"a">>, <<"9">>, <<"0">>, <<"0">>, <<"x">>, <<"g">>)

LinePool ==
    {L_comment, L_a1, L_a01, L_a2, L_r3, L_short, L_badoffset, L_badscore, L_nosynset}

NoQuery == [op |-> "none", word |-> "", exc |-> "none", none |-> FALSE, value |-> <<>>]

\* SentiWordNet(swn_path), up to the loop: an empty _synset_dict, the file open.
SwnOpen ==
    /\ swn_pc = "uninitialized"
    /\ \E file \in SeqsUpTo(LinePool, MaxLines) : swn_file' = file
    /\ swn_pc' = "loading"
    /\ swn_index' = 0
    /\ synset_dict' = <<>>
    /\ UNCHANGED <<swn_stdout, swn_query>>
    /\ UNCHANGED <<dbvars, bfd, memovars, filevars, sortcall>>

\* The loop of __init__ reporting a line that does not parse, and going on.
SwnLine_goes_on ==
    /\ swn_pc = "loading"
    /\ swn_index < Len(swn_file)
    /\ LET line == swn_file[swn_index + 1]
           r == parse_line(line)
       IN  IF IsComment(line)
           THEN UNCHANGED <<synset_dict, swn_stdout>>
           ELSE IF r.exc = "none"
           THEN /\ synset_dict' =
                       [k \in DOMAIN synset_dict \cup {r.entry.unique_key} |->
                          IF k = r.entry.unique_key THEN r.entry ELSE synset_dict[k]]
                /\ UNCHANGED swn_stdout
           ELSE /\ swn_stdout' = Append(swn_stdout, [lineno |-> swn_index + 1, line |-> line])
                /\ UNCHANGED synset_dict
    /\ swn_index' = swn_index + 1
    /\ UNCHANGED <<swn_pc, swn_file, swn_query>>
    /\ UNCHANGED <<dbvars, bfd, memovars, filevars, sortcall>>

\* The loop of __init__ keeping the entry a key already has.
SwnLine_keeps_first ==
    /\ swn_pc = "loading"
    /\ swn_index < Len(swn_file)
    /\ LET line == swn_file[swn_index + 1]
           r == parse_line(line)
       IN  IF IsComment(line)
           THEN /\ swn_index' = swn_index + 1
                /\ UNCHANGED <<swn_pc, synset_dict, swn_stdout>>
           ELSE IF r.exc = "none"
           THEN /\ synset_dict' =
                       [k \in DOMAIN synset_dict \cup {r.entry.unique_key} |->
                          IF k \in DOMAIN synset_dict THEN synset_dict[k] ELSE r.entry]
                /\ swn_index' = swn_index + 1
                /\ UNCHANGED <<swn_pc, swn_stdout>>
           ELSE /\ swn_stdout' = Append(swn_stdout, [lineno |-> swn_index + 1, line |-> line])
                /\ swn_pc' = "failed"
                /\ UNCHANGED <<swn_index, synset_dict>>
    /\ UNCHANGED <<swn_file, swn_query>>
    /\ UNCHANGED <<dbvars, bfd, memovars, filevars, sortcall>>

\* One turn of the loop of __init__, on the line at swn_index.
SwnLine ==
    /\ swn_pc = "loading"
    /\ swn_index < Len(swn_file)
    /\ LET line == swn_file[swn_index + 1]
           r == parse_line(line)
       IN  IF IsComment(line)
           THEN /\ swn_index' = swn_index + 1
                /\ UNCHANGED <<swn_pc, synset_dict, swn_stdout>>
           ELSE IF r.exc = "none"
           THEN /\ synset_dict' =
                       [k \in DOMAIN synset_dict \cup {r.entry.unique_key} |->
                          IF k = r.entry.unique_key THEN r.entry ELSE synset_dict[k]]
                /\ swn_index' = swn_index + 1
                /\ UNCHANGED <<swn_pc, swn_stdout>>
           ELSE /\ swn_stdout' = Append(swn_stdout, [lineno |-> swn_index + 1, line |-> line])
                /\ swn_pc' = "failed"
                /\ UNCHANGED <<swn_index, synset_dict>>
    /\ UNCHANGED <<swn_file, swn_query>>
    /\ UNCHANGED <<dbvars, bfd, memovars, filevars, sortcall>>

\* The loop ends, the file is closed, and the caller holds the index.
SwnDone ==
    /\ swn_pc = "loading"
    /\ swn_index = Len(swn_file)
    /\ swn_pc' = "ready"
    /\ UNCHANGED <<swn_file, swn_index, synset_dict, swn_stdout, swn_query>>
    /\ UNCHANGED <<dbvars, bfd, memovars, filevars, sortcall>>

RECURSIVE Resolve(_, _)
\* The list comprehension of get_possible_synsets: the entries of the
\* candidates in order, or the KeyError of the first one the index lacks.
Resolve(d, candidates) ==
    IF Len(candidates) = 0 THEN [exc |-> "none", value |-> <<>>]
    ELSE LET key == make_unique_key(Head(candidates).pos, Head(candidates).offset)
             rest == Resolve(d, Tail(candidates))
         IN  IF key \notin DOMAIN d THEN [exc |-> "KeyError", value |-> <<>>]
             ELSE IF rest.exc # "none" THEN rest
             ELSE [exc |-> "none", value |-> <<d[key]>> \o rest.value]

RECURSIVE ResolveKnown(_, _)
ResolveKnown(d, candidates) ==
    IF Len(candidates) = 0 THEN <<>>
    ELSE LET key == make_unique_key(Head(candidates).pos, Head(candidates).offset)
         IN  (IF key \in DOMAIN d THEN <<d[key]>> ELSE <<>>)
             \o ResolveKnown(d, Tail(candidates))

\* get_possible_synsets passing over the candidates the index lacks.
get_possible_synsets_skip(d, word) ==
    [exc |-> "none", value |-> ResolveKnown(d, synsets(word))]

get_possible_synsets(d, word) == Resolve(d, synsets(word))

\* The result's none says that None is returned, and value then is empty.
most_frequent_synset(d, word) ==
    LET possible_synsets == get_possible_synsets(d, word)
    IN  IF possible_synsets.exc # "none"
        THEN [exc |-> possible_synsets.exc, none |-> FALSE, value |-> <<>>]
        ELSE IF Len(possible_synsets.value) > 0
        THEN [exc |-> "none", none |-> FALSE, value |-> <<possible_synsets.value[1]>>]
        ELSE [exc |-> "none", none |-> TRUE, value |-> <<>>]

GetPossibleSynsets ==
    /\ swn_pc = "ready"
    /\ \E word \in Words :
          LET r == get_possible_synsets(synset_dict, word)
          IN  swn_query' = [op |-> "get_possible_synsets", word |-> word, exc |-> r.exc,
                            none |-> FALSE, value |-> r.value]
    /\ UNCHANGED <<swn_pc, swn_file, swn_index, synset_dict, swn_stdout>>
    /\ UNCHANGED <<dbvars, bfd, memovars, filevars, sortcall>>

MostFrequentSynset ==
    /\ swn_pc = "ready"
    /\ \E word \in Words :
          LET r == most_frequent_synset(synset_dict, word)
          IN  swn_query' = [op |-> "most_frequent_synset", word |-> word, exc |-> r.exc,
                            none |-> r.none, value |-> r.value]
    /\ UNCHANGED <<swn_pc, swn_file, swn_index, synset_dict, swn_stdout>>
    /\ UNCHANGED <<dbvars, bfd, memovars, filevars, sortcall>>

(***************************************************************************)
(* The specifications, one for each module of the toolbox.                 *)
(***************************************************************************)
InitDb == tables = <<>> /\ dblog = <<>> /\ dbcall = NoDbCall

InitMemo ==
    /\ cache = <<>>
    /\ invoked = [a \in ArgTuples |-> 0]
    /\ memocall = NoMemoCall

InitSwn ==
    /\ swn_pc = "uninitialized"
    /\ swn_file = <<>>
    /\ swn_index = 0
    /\ synset_dict = <<>>
    /\ swn_stdout = <<>>
    /\ swn_query = NoQuery

\* Nothing exists.
EmptyFs == [nodes |-> [p \in Paths |-> Absent], order |-> CHOOSE o \in Listings : TRUE]

\* The state before any call, given the filesystem and the arguments of the
\* calls of the three functions that are applied to arguments drawn here.
InitWith(f, b, z, o) ==
    /\ InitDb /\ InitMemo /\ InitSwn
    /\ fs = f /\ bfd = b /\ sizecall = z /\ sortcall = o
    /\ namecall = NoNameCall

Init == InitWith(EmptyFs, NoBfd, NoSizeCall, NoSortCall)

InitFields == \E b \in BfdInputs : InitWith(EmptyFs, b, NoSizeCall, NoSortCall)

\* getsize reads the filesystem and leaves it as it is: any one to begin with.
InitFiles ==
    \E f \in FileSystems, z \in SizeInputs : InitWith(f, NoBfd, z, NoSortCall)

InitSort == \E o \in SortInputs : InitWith(EmptyFs, NoBfd, NoSizeCall, o)

InitNames ==
    /\ InitDb /\ InitMemo /\ InitSwn
    /\ fs = EmptyFs /\ bfd = NoBfd /\ sizecall = NoSizeCall /\ sortcall = NoSortCall
    /\ namecall \in NameInputs

NextDb == CreateTable \/ DropTable \/ GetColumn \/ RunQuery \/ DbError

NextSwn == SwnOpen \/ SwnLine \/ SwnDone \/ GetPossibleSynsets \/ MostFrequentSynset

Next ==
    \/ NextDb \/ BuildFieldDescriptor \/ MemoCall \/ GetSize \/ MakeNewName
    \/ DictByValue \/ NextSwn

Spec == Init /\ [][Next]_vars

SpecDb == Init /\ [][NextDb]_vars

SpecFields == InitFields /\ [][BuildFieldDescriptor]_vars

SpecMemo == Init /\ [][MemoCall]_vars

SpecFiles == InitFiles /\ [][GetSize]_vars

SpecSort == InitSort /\ [][DictByValue]_vars

SpecNames == InitNames /\ [][MakeNewName]_vars

SpecSwn == Init /\ [][NextSwn]_vars

(***************************************************************************)
(* Properties.                                                             *)
(***************************************************************************)

\* C1 (db.py, checked under SpecDb): whenever the driver raises a database
\* error in create_table, drop_table or get_column, the error is handed to the
\* logging sink and the call returns normally to its caller.
C1_DbErrorLoggedAndSwallowed ==
    (dbcall.op \in {"create_table", "drop_table", "get_column"} /\ dbcall.dberr # "none") =>
        /\ dbcall.outcome = "returned"
        /\ Len(dblog) > 0
        /\ dblog[Len(dblog)].error = dbcall.dberr

BfdReturned == bfd.called /\ bfd.exc = "none"

\* s[i : i+len(sub)] == sub
MatchAt(s, sub, i) ==
    /\ i + Len(sub) - 1 <= Len(s)
    /\ \A j \in 1..Len(sub) : s[i + j - 1] = sub[j]

\* The number of places of s where sub occurs.
Count(s, sub) == Cardinality({i \in 1..Len(s) : MatchAt(s, sub, i)})

\* The places of the commas of the clause, and of its two parentheses.
Cuts == {i \in 1..Len(bfd.value) : bfd.value[i] = ","} \cup {1, Len(bfd.value)}

\* The k-th of them, from the left.
Cut(k) == CHOOSE p \in Cuts : Cardinality({q \in Cuts : q < p}) = k - 1

\* The piece of the clause between two cuts: what it says of the k-th field.
Segment(k) == SubSeq(bfd.value, Cut(k) + 1, Cut(k + 1) - 1)

\* The fields whose piece of the clause carries the annotation.
Carriers(annotation) ==
    {i \in 1..Len(bfd.fields) :
        i < Cardinality(Cuts) /\ Count(Segment(i), annotation) > 0}

\* The fields of the given name.
Named(name) == {i \in 1..Len(bfd.fields) : split(bfd.fields[i])[1] = name}

\* C2 as stated (checked under SpecFields): the clause build_field_descriptor
\* returns holds exactly one PRIMARY KEY annotation, on the field named by the
\* primary-key argument, for every list of fields.
C2_ExactlyOnePrimaryKey ==
    BfdReturned =>
        /\ Count(bfd.value, PRIMARY_KEY) = 1
        /\ Carriers(PRIMARY_KEY) = Named(bfd.primary_key)

\* C2 as amended (checked under SpecFields): the clause holds one PRIMARY KEY
\* annotation on each field whose name is the primary-key argument and none
\* elsewhere: as many annotations as there are fields of that name.
C2_PrimaryKeyOnEachNamedField ==
    BfdReturned =>
        /\ Len(bfd.fields) > 0 => Cardinality(Cuts) = Len(bfd.fields) + 1
        /\ Carriers(PRIMARY_KEY) = Named(bfd.primary_key)
        /\ Count(bfd.value, PRIMARY_KEY) = Cardinality(Named(bfd.primary_key))

C2_Witness ==
    /\ BfdReturned
    /\ Len(bfd.fields) >= 2
    /\ Cardinality(Named(bfd.primary_key)) = 1
    /\ Count(bfd.value, PRIMARY_KEY) = 1

\* C3 as stated (checked under SpecFields): at most one field of the clause
\* carries AUTO_INCREMENT, and one carries it only if the auto-increment name
\* is the name of a field of the list.
C3_AtMostOneAutoIncrement ==
    BfdReturned =>
        /\ Cardinality(Carriers(AUTO_INCREMENT)) <= 1
        /\ Carriers(AUTO_INCREMENT) # {} => Named(bfd.auto_inc) # {}

\* C3 as amended (checked under SpecFields): the fields that carry
\* AUTO_INCREMENT are the fields whose name is the auto-increment name: none
\* when it is omitted or names no field, every one of them when it names several.
C3_AutoIncrementOnEachNamedField ==
    BfdReturned =>
        /\ Carriers(AUTO_INCREMENT) = Named(bfd.auto_inc)
        /\ Count(bfd.value, AUTO_INCREMENT) = Cardinality(Named(bfd.auto_inc))
        /\ bfd.auto_inc = None => Count(bfd.value, AUTO_INCREMENT) = 0

C3_Witness ==
    /\ BfdReturned
    /\ Len(bfd.fields) >= 2
    /\ bfd.auto_inc # None
    /\ Cardinality(Named(bfd.auto_inc)) = 1
    /\ Cardinality(Carriers(AUTO_INCREMENT)) = 1

SizeOfMissing == sizecall.called /\ fs.nodes[sizecall.path] = Absent

\* C4 as stated (checked under SpecFiles): getsize of a path that does not
\* exist fails with the I/O error, and returns no size.
C4_MissingPathFails == SizeOfMissing => sizecall.exc = "OSError"

\* C4 as amended (checked under SpecFiles): getsize of a path that does not
\* exist raises nothing and returns 0.
C4_MissingPathIsZero == SizeOfMissing => sizecall.exc = "none" /\ sizecall.value = 0

C4_Witness ==
    /\ SizeOfMissing
    /\ sizecall.exc = "none"
    /\ sizecall.value = 0
    /\ \E p \in Paths : fs.nodes[p].kind = "file"

\* C5 (decorators.py, checked under SpecMemo): over any sequence of calls,
\* the wrapped function runs at most once for each hashable argument tuple:
\* the first call runs it and stores the result, later calls return the
\* stored value and do not run it.
C5_AtMostOnceEachTuple ==
    /\ \A a \in ArgTuples :
          Hashable(a) =>
              /\ invoked[a] <= 1
              /\ a \in DOMAIN cache <=> invoked[a] = 1
              /\ a \in DOMAIN cache => cache[a] = func(a)
    /\ (memocall.called /\ Hashable(memocall.args)) =>
          /\ memocall.outcome = "returned"
          /\ memocall.value = func(memocall.args)
          /\ memocall.ran = 0 <=> memocall.args \in DOMAIN memocall.cache_before
          /\ memocall.args \in DOMAIN cache

C5_Witness ==
    /\ memocall.called
    /\ Hashable(memocall.args)
    /\ memocall.ran = 0
    /\ invoked[memocall.args] = 1
    /\ memocall.value = "taggers/maxent_treebank_pos_tagger/english.pickle"

\* C6 (decorators.py, checked under SpecMemo): a call whose argument tuple
\* cannot be hashed runs the wrapped function exactly once, returns its
\* result, does not fail, and leaves the cache as it was.
C6_UnhashableBypassesCache ==
    (memocall.called /\ ~Hashable(memocall.args)) =>
        /\ memocall.outcome = "returned"
        /\ memocall.ran = 1
        /\ memocall.value = func(memocall.args)
        /\ cache = memocall.cache_before
        /\ memocall.args \notin DOMAIN cache

C6_Witness ==
    /\ memocall.called
    /\ ~Hashable(memocall.args)
    /\ invoked[memocall.args] >= 2
    /\ DOMAIN cache # {}

\* q lies under the directory p.
Under(p, q) == Len(q) > Len(p) /\ SubSeq(q, 1, Len(p)) = p

Rejected(q) == ~sizecall.ignorefunc.none /\ q \in sizecall.ignorefunc.rejects

\* The files under the path of the call that the predicate does not reject.
CountedFiles == {q \in Paths : fs.nodes[q].kind = "file" /\ Under(sizecall.path, q) /\ ~Rejected(q)}

RECURSIVE SumSizes(_)
SumSizes(S) ==
    IF S = {} THEN 0
    ELSE LET q == CHOOSE x \in S : TRUE IN fs.nodes[q].size + SumSizes(S \ {q})

\* C7 (files.py, checked under SpecFiles): getsize of a directory is the sum
\* of the sizes of the files under it whose full path the predicate does not
\* reject, and getsize of a plain file is its own size, whatever the predicate.
C7_SizeIsSumOfKeptFiles ==
    sizecall.called =>
        /\ isdir(fs, sizecall.path) =>
              sizecall.exc = "none" /\ sizecall.value = SumSizes(CountedFiles)
        /\ isfile(fs, sizecall.path) =>
              sizecall.exc = "none" /\ sizecall.value = fs.nodes[sizecall.path].size

C7_Witness ==
    /\ sizecall.called
    /\ isdir(fs, sizecall.path)
    /\ \E q \in CountedFiles : Len(q) = Len(sizecall.path) + 2
    /\ \E q \in Paths : fs.nodes[q].kind = "file" /\ Under(sizecall.path, q) /\ Rejected(q)
    /\ sizecall.value > 0

\* (value, key) of the first entry comes before that of the second.
EntryLess(x, y) == x.v < y.v \/ (x.v = y.v /\ KeyRank(x.k) < KeyRank(y.k))

Entry(k, v) == [k |-> k, v |-> v]

Range(s) == {s[i] : i \in 1..Len(s)}

\* C8 (sorting.py, checked under SpecSort): dict_by_value returns every
\* entry once, by value ascending and by key ascending among equal values;
\* with reverse, exactly the reverse of that; and {'a':3,'b':1,'c':3} gives
\* [('b',1),('a',3),('c',3)].
C8_SortedByValueThenKey ==
    sortcall.called =>
        LET r == sortcall.result
        IN  /\ Len(r) = Len(sortcall.items)
            /\ Range(r) = Range(sortcall.items)
            /\ ~sortcall.reverse =>
                  \A i, j \in 1..Len(r) : i < j => EntryLess(r[i], r[j])
            /\ sortcall.reverse =>
                  /\ \A i, j \in 1..Len(r) : i < j => EntryLess(r[j], r[i])
                  /\ r = Reverse(dict_by_value(sortcall.items, FALSE))
            /\ (~sortcall.reverse
                  /\ Range(sortcall.items) = {Entry("a", 3), Entry("b", 1), Entry("c", 3)})
                  => r = <<Entry("b", 1), Entry("a", 3), Entry("c", 3)>>

C8_Witness ==
    /\ sortcall.called
    /\ sortcall.reverse
    /\ sortcall.items = <<Entry("a", 3), Entry("b", 1), Entry("c", 3)>>
    /\ sortcall.result = <<Entry("c", 3), Entry("a", 3), Entry("b", 1)>>

\* What _parse_line makes of each line a file can hold.
ParseOf == [l \in LinePool |-> parse_line(l)]

\* The lines of the file, by number, that are no comments and do not parse.
Malformed == {i \in 1..Len(swn_file) : ~IsComment(swn_file[i]) /\ ParseOf[swn_file[i]].exc # "none"}

FirstMalformed == CHOOSE i \in Malformed : \A j \in Malformed : i <= j

\* C9 (swn.py, checked under SpecSwn): a file with a malformed line is never
\* read beyond the first such line and never yields an index to query;
\* construction fails at that line, whose number and content are what is
\* reported, however many well-formed lines came before it.
C9_MalformedLineAbortsConstruction ==
    /\ Malformed # {} =>
          /\ swn_pc # "ready"
          /\ swn_query = NoQuery
          /\ swn_index < FirstMalformed
          /\ swn_pc = "failed" =>
                /\ swn_index = FirstMalformed - 1
                /\ swn_stdout = <<[lineno |-> FirstMalformed, line |-> swn_file[FirstMalformed]]>>
          /\ swn_pc # "failed" => swn_stdout = <<>>
    /\ swn_pc = "failed" => Malformed # {}

C9_Witness ==
    /\ swn_pc = "failed"
    /\ swn_index = 2
    /\ Cardinality(DOMAIN synset_dict) = 2
    /\ swn_stdout = <<[lineno |-> 3, line |-> L_badscore]>>

QueryKeys ==
    [i \in 1..Len(synsets(swn_query.word)) |->
        synsets(swn_query.word)[i].pos \o str(synsets(swn_query.word)[i].offset)]

QueryMisses == \E i \in 1..Len(QueryKeys) : QueryKeys[i] \notin DOMAIN synset_dict

\* C10 (swn.py, checked under SpecSwn): a lookup one of whose candidates has
\* no entry under its key fails with KeyError and returns nothing; otherwise
\* get_possible_synsets returns the entries of the candidates in WordNet's
\* order, and most_frequent_synset the first of them, or None when the word
\* has no candidate.
C10_MissingCandidateIsKeyError ==
    /\ swn_query.op # "none" =>
          IF QueryMisses
          THEN swn_query.exc = "KeyError" /\ swn_query.value = <<>> /\ ~swn_query.none
          ELSE swn_query.exc = "none"
    /\ (swn_query.op = "get_possible_synsets" /\ ~QueryMisses) =>
          /\ Len(swn_query.value) = Len(QueryKeys)
          /\ \A i \in 1..Len(QueryKeys) :
                /\ swn_query.value[i] = synset_dict[QueryKeys[i]]
                /\ swn_query.value[i].pos = synsets(swn_query.word)[i].pos
                /\ swn_query.value[i].offset = synsets(swn_query.word)[i].offset
    /\ (swn_query.op = "most_frequent_synset" /\ ~QueryMisses) =>
          IF Len(QueryKeys) = 0
          THEN swn_query.none /\ swn_query.value = <<>>
          ELSE ~swn_query.none /\ swn_query.value = <<synset_dict[QueryKeys[1]]>>

C10_Witness ==
    /\ swn_query.op = "most_frequent_synset"
    /\ swn_query.exc = "KeyError"
    /\ Len(QueryKeys) = 2
    /\ QueryKeys[1] \in DOMAIN synset_dict

\* The directory, and the base name and extension, of the path of the call.
OriginalDir == os_path_split(namecall.path)[1]

OriginalBase == os_path_splitext(os_path_split(namecall.path)[2])[1]

OriginalExt == os_path_splitext(os_path_split(namecall.path)[2])[2]

\* The path of directory d, base name b and extension e.
PathOf(d, b, e) ==
    IF Len(d) = 0 THEN b \o e
    ELSE IF d[Len(d)] = SEP THEN d \o b \o e
    ELSE d \o <<SEP>> \o b \o e

\* What make_new_name('/a/b/c.txt', ...) is to return, for the three calls
\* the claim names.
NameExamples ==
    namecall.path = P_abc_txt =>
        /\ (namecall.new_dir = <<"/", "x">> /\ namecall.new_ext = <<".", "m", "d">>)
              => namecall.result = <<"/", "x", "/", "c", ".", "m", "d">>
        /\ (namecall.new_dir = <<"/", "x">> /\ namecall.new_ext = None)
              => namecall.result = <<"/", "x", "/", "c", ".", "t", "x", "t">>
        /\ (namecall.new_dir = None /\ namecall.new_ext = None)
              => namecall.result = P_abc_txt

\* C11 (files.py, checked under SpecNames): make_new_name returns the path
\* whose directory is new_dir when it is given and the original directory
\* otherwise, whose base name is the original one, and whose extension is
\* new_ext when it is given and the original extension otherwise; and
\* '/a/b/c.txt' gives '/x/c.md', '/x/c.txt' and itself in the three calls named.
C11_NewNameFromGivenParts ==
    namecall.called =>
        /\ namecall.result =
              PathOf(IF namecall.new_dir # None THEN namecall.new_dir ELSE OriginalDir,
                     OriginalBase,
                     IF namecall.new_ext # None THEN namecall.new_ext ELSE OriginalExt)
        /\ NameExamples

\* The same with '' taken as left out: what the code does.
C11_NewNameFromNonEmptyParts ==
    namecall.called =>
        /\ namecall.result =
              PathOf(IF Truthy(namecall.new_dir) THEN namecall.new_dir ELSE OriginalDir,
                     OriginalBase,
                     IF Truthy(namecall.new_ext) THEN namecall.new_ext ELSE OriginalExt)
        /\ NameExamples

\* The lines read so far, by number, that are no comments and parse.
Stored == {i \in 1..swn_index : ~IsComment(swn_file[i]) /\ ParseOf[swn_file[i]].exc = "none"}

\* The entry of line i, and the key it goes under.
EntryOf(i) == ParseOf[swn_file[i]].entry

KeyOf(i) == EntryOf(i).unique_key

\* The last line read so far whose entry goes under key k.
LastWith(k) == CHOOSE i \in Stored : KeyOf(i) = k /\ \A j \in Stored : KeyOf(j) = k => j <= i

\* The index holds, under each key of the lines read, the entry of the last
\* line with that key, and nothing else.
LastLineWins ==
    swn_pc \in {"loading", "failed", "ready"} =>
        /\ DOMAIN synset_dict = {KeyOf(i) : i \in Stored}
        /\ \A k \in DOMAIN synset_dict : synset_dict[k] = EntryOf(LastWith(k))
        /\ swn_pc = "ready" => swn_index = Len(swn_file)

\* A turn of the loop on a comment leaves the index as it is; a turn on a
\* line that parses puts its entry under its key, touches no other key and
\* reports nothing, whether or not the key was there.
LineStep ==
    (swn_pc = "loading" /\ swn_index < Len(swn_file)) =>
        LET line == swn_file[swn_index + 1]
            r == ParseOf[line]
        IN  IF IsComment(line) THEN synset_dict' = synset_dict /\ swn_pc' = "loading"
            ELSE r.exc = "none" =>
                    /\ DOMAIN synset_dict' = DOMAIN synset_dict \cup {r.entry.unique_key}
                    /\ synset_dict'[r.entry.unique_key] = r.entry
                    /\ \A k \in DOMAIN synset_dict :
                          k # r.entry.unique_key => synset_dict'[k] = synset_dict[k]
                    /\ swn_pc' = "loading"
                    /\ swn_stdout' = swn_stdout

\* C12 (swn.py, checked under SpecSwn): while the file is loaded line by
\* line, each non-comment line that parses stores its entry under the key of
\* its part of speech and offset; of several lines with one key the last in
\* file order is the one the finished index holds, the earlier ones being
\* overwritten without an error; and a line starting with '#' never adds or
\* changes an entry.
C12_LastLineOfAKeyWins == [][LineStep]_vars /\ []LastLineWins

\* A finished index of a file with L_a1, a comment and then L_a01, which has
\* the key of L_a1: the index holds the scores of L_a01 under that key.
C12_Witness ==
    /\ swn_pc = "ready"
    /\ swn_file = <<L_a1, L_comment, L_a01>>
    /\ DOMAIN synset_dict = {<<"a", "1">>}
    /\ synset_dict[<<"a", "1">>].pos_score = Zero(FALSE)
    /\ synset_dict[<<"a", "1">>].neg_score = Nearest(FALSE, <<25>>, 2, 2, FALSE)
    /\ synset_dict[<<"a", "1">>] # parse_line(L_a1).entry

====
